---- MODULE Spec2Model ----
(***************************************************************************)
(* The Terraform visual editor of terraform-ui.  The repository holds two  *)
(* variants of the component `Terraform`:                                   *)
(*   "effects" : src/src/components/Terraform.tsx, which re-renders the     *)
(*               document in a useEffect and clears the placed resources    *)
(*               in another useEffect when the category changes;            *)
(*   "direct"  : src/unnamed/part_000, whose handlers call                   *)
(*               updateTerraformCode themselves and which has no            *)
(*               category-clear effect and no provider block.               *)
(* A state of the model is a committed React render of the mounted variant. *)
(* A text is the sequence of its lines, every line ended by "\n" in the     *)
(* source; the empty string is the empty sequence.                          *)
(***************************************************************************)
EXTENDS Naturals, Sequences, FiniteSets, TLC

\* ------------------------------------------------------------------ bounds
\* Most placed resources and field-value entries on the canvas, together.
MaxSize == 4

\* ------------------------------------------------------------------ inputs
Variants == {"effects", "direct"}
\* Strings typed into a field input: e.target.value.
Values == {"my-bucket", "us-east-1"}
\* Identifiers of the catalog items that get dragged: event.active.id.
DragIds == {"aws_s3", "aws_rds"}
\* `undefined`, as find() and the editor's onChange can yield it.
Undefined == [undefined |-> TRUE]
\* A string value, where undefined may come instead.
String(text) == [text |-> text]
\* What the code editor hands to onChange after a direct edit.
EditorInputs == {Undefined, String(<<>>), String(<<"# edited by hand">>)}

\* ----------------------------------------------------------------- catalog
Categories == {"AWS", "OpenStack", "Docker"}

Def(id, name, fields) == [id |-> id, name |-> name, fields |-> fields]

\* The static catalog (the `image` path of Terraform.tsx is presentation only).
resources ==
  [c \in Categories |->
     CASE c = "AWS" ->
            << Def("aws_ec2", "AWS EC2", <<"ami", "instance_type", "tags">>),
               Def("aws_s3", "AWS S3", <<"bucket_name", "region">>),
               Def("aws_rds", "AWS RDS", <<"db_name", "instance_class">>) >>
       [] c = "OpenStack" ->
            << Def("openstack_compute", "OpenStack Compute", <<"flavor", "image">>),
               Def("openstack_network", "OpenStack Network", <<"cidr", "subnet">>) >>
       [] c = "Docker" ->
            << Def("docker_container", "Docker Container", <<"image", "ports">>),
               Def("docker_network", "Docker Network", <<"driver">>) >>]

Range(s) == {s[i] : i \in 1..Len(s)}

CatalogIds(c) == {resources[c][i].id : i \in 1..Len(resources[c])}

AllIds == UNION {CatalogIds(c) : c \in Categories}

AllFields == UNION {Range(d.fields) : d \in UNION {Range(resources[c]) : c \in Categories}}

\* Array.prototype.find: the first element with that id, or undefined.
find(list, id) ==
  IF \E i \in 1..Len(list) : list[i].id = id
    THEN list[CHOOSE i \in 1..Len(list) :
                /\ list[i].id = id
                /\ \A j \in 1..(i - 1) : list[j].id # id]
    ELSE Undefined

\* String.prototype.toLowerCase on the category keys.
toLowerCase(s) ==
  CASE s = "AWS" -> "aws"
    [] s = "OpenStack" -> "openstack"
    [] s = "Docker" -> "docker"

\* ------------------------------------------------- the `values` objects
\* A `values` object is a JS object with string keys: its entries in
\* insertion order, as Object.entries lists them.
HasKey(obj, key) == \E i \in 1..Len(obj) : obj[i].key = key

KeyIndex(obj, key) == CHOOSE i \in 1..Len(obj) : obj[i].key = key

\* obj[key] = value: an existing key keeps its place, a new one goes last.
SetProperty(obj, key, value) ==
  IF HasKey(obj, key)
    THEN [obj EXCEPT ![KeyIndex(obj, key)].value = value]
    ELSE Append(obj, [key |-> key, value |-> value])

\* ---------------------------------------------------------------- renderer
HeaderLine(id) == "resource \"" \o id \o "\" \"" \o id \o "_resource\" {"

FieldLine(key, value) == "  " \o key \o " = \"" \o value \o "\""

\* The template literal that opens the document in both variants.
Preamble(category) ==
  << "terraform {",
     "  required_providers {",
     "    " \o toLowerCase(category) \o " = {",
     "      source  = \"hashicorp/" \o toLowerCase(category) \o "\"",
     "      version = \"~> 4.16\"",
     "    }",
     "  }",
     "  required_version = \">= 1.2.0\"",
     "}",
     "" >>

\* The provider block Terraform.tsx appends to the preamble.
ProviderBlock(category) ==
  << "provider \"" \o toLowerCase(category) \o "\" {}", "" >>

\* FieldLines iterating res.fields, the catalog's declared order.
CatalogOrderFieldLines(res, objs) ==
  LET obj == objs[res.values]
      present == SelectSeq(res.fields, LAMBDA f : HasKey(obj, f))
  IN  [i \in 1..Len(present) |->
         FieldLine(present[i], obj[KeyIndex(obj, present[i])].value)]

\* Object.entries(res.values).forEach(...): one line per entry.
FieldLines(res, objs) ==
  LET obj == objs[res.values]
  IN  [i \in 1..Len(obj) |-> FieldLine(obj[i].key, obj[i].value)]

\* ResourceBlock without the blank line after the closing brace.
UnterminatedResourceBlock(res, objs) ==
  <<HeaderLine(res.id)>> \o FieldLines(res, objs) \o <<"}">>

\* One pass of the forEach over the placed resources.
ResourceBlock(res, objs) ==
  <<HeaderLine(res.id)>> \o FieldLines(res, objs) \o <<"}", "">>

\* ResourceBlocks emitting the last placed resource first.
RECURSIVE ReversedResourceBlocks(_, _)
ReversedResourceBlocks(list, objs) ==
  IF list = <<>> THEN <<>>
  ELSE ReversedResourceBlocks(Tail(list), objs) \o ResourceBlock(Head(list), objs)

RECURSIVE ResourceBlocks(_, _)
ResourceBlocks(list, objs) ==
  IF list = <<>> THEN <<>>
  ELSE ResourceBlock(Head(list), objs) \o ResourceBlocks(Tail(list), objs)

\* generateTerraformCode of Terraform.tsx, as the text it hands to
\* setTerraformCode.
generateTerraformCode(category, list, objs) ==
  Preamble(category) \o ProviderBlock(category) \o ResourceBlocks(list, objs)

\* updateTerraformCode of part_000: the same without the provider block.
updateTerraformCode(category, list, objs) ==
  Preamble(category) \o ResourceBlocks(list, objs)

\* ------------------------------------------------------------------- state
VARIABLES
  variant,           \* which of the two components is mounted
  darkMode,          \* useState: the theme flag
  theme,             \* localStorage["theme"]
  rootDark,          \* whether <html> carries the class "dark"
  selectedCategory,  \* useState: the active category
  droppedResources,  \* useState: the placed resources, in drop order
  heap,              \* the `values` objects the placed resources refer to
  terraformCode,     \* useState: the text shown in the code editor
  pending,           \* effects of the committed render that have not run yet
  lastOp,            \* history: the last user operation
  lastLen,           \* history: length of droppedResources when it began
  lastEdit,          \* history: arguments of the last updateResourceValue
  editOrder          \* history: per placed resource, its fields by first edit

state == <<variant, darkMode, theme, rootDark, selectedCategory,
           droppedResources, heap, terraformCode, pending>>

history == <<lastOp, lastLen, lastEdit, editOrder>>

vars == <<state, history>>

NoEdit == [index |-> 0, key |-> ""]

\* The useEffect hooks each variant declares.
Effects(v) ==
  IF v = "effects" THEN {"theme", "clear", "generate"} ELSE {"theme"}

\* Schedule with droppedResources left out of the dependency array of the
\* rendering effect.
ScheduleWithoutResourcesDep(v, darkChanged, categoryChanged, resourcesChanged) ==
  Effects(v) \cap
    ( (IF darkChanged THEN {"theme"} ELSE {})
      \cup (IF categoryChanged THEN {"clear", "generate"} ELSE {}) )

\* The effects React runs after a commit: those with a changed dependency.
\* setDroppedResources always stores a new array, so every call changes it.
Schedule(v, darkChanged, categoryChanged, resourcesChanged) ==
  Effects(v) \cap
    ( (IF darkChanged THEN {"theme"} ELSE {})
      \cup (IF categoryChanged THEN {"clear", "generate"} ELSE {})
      \cup (IF resourcesChanged THEN {"generate"} ELSE {}) )

\* The renderer the mounted variant uses.
Render(v, category, list, objs) ==
  IF v = "effects"
    THEN generateTerraformCode(category, list, objs)
    ELSE updateTerraformCode(category, list, objs)

TotalEntries(objs) ==
  LET RECURSIVE Sum(_)
      Sum(i) == IF i = 0 THEN 0 ELSE Len(objs[i]) + Sum(i - 1)
  IN  Sum(Len(objs))

\* Spread handing every placed resource the same values object.
SharedValuesSpread(resource, objs) ==
  [id |-> resource.id, name |-> resource.name, fields |-> resource.fields,
   values |-> 1]

\* { ...resource, values: {} }: a copy that refers to a fresh values object.
Spread(resource, objs) ==
  [id |-> resource.id, name |-> resource.name, fields |-> resource.fields,
   values |-> Len(objs) + 1]

\* AppendResource putting the new resource first.
PrependResource(list, placed) == <<placed>> \o list

\* [...droppedResources, placed]
AppendResource(list, placed) == Append(list, placed)

\* updatedResources[index].values[key] = value, on the object itself.
WriteValue(objs, ref, key, value) ==
  [objs EXCEPT ![ref] = SetProperty(@, key, value)]

\* a || ""
OrEmpty(code) == IF code = Undefined THEN <<>> ELSE code.text

Init ==
  /\ variant \in Variants
  /\ theme \in {"null", "dark", "light"}
  /\ darkMode = (theme = "dark")
  /\ rootDark = FALSE
  /\ selectedCategory = "AWS"
  /\ droppedResources = <<>>
  /\ heap = <<>>
  /\ terraformCode = <<>>
  /\ pending = Effects(variant)
  /\ lastOp = "mount"
  /\ lastLen = 0
  /\ lastEdit = NoEdit
  /\ editOrder = <<>>

\* ----------------------------------------------------------------- actions
\* Terraform.tsx: onDragEnd of the catalog's DndContext.
handleDragEnd(activeId) ==
  LET resource == find(resources[selectedCategory], activeId) IN
  /\ variant = "effects"
  /\ pending = {}
  /\ Len(droppedResources) + TotalEntries(heap) < MaxSize
  /\ resource # Undefined
  /\ droppedResources' = AppendResource(droppedResources, Spread(resource, heap))
  /\ heap' = Append(heap, <<>>)
  /\ pending' = Schedule(variant, FALSE, FALSE, TRUE)
  /\ lastOp' = "drop"
  /\ lastLen' = Len(droppedResources)
  /\ lastEdit' = NoEdit
  /\ editOrder' = Append(editOrder, <<>>)
  /\ UNCHANGED <<variant, darkMode, theme, rootDark, selectedCategory,
                 terraformCode>>

\* part_000: the same handler, which also renders the new list itself.
handleDragEndDirect(activeId) ==
  LET resource == find(resources[selectedCategory], activeId) IN
  /\ variant = "direct"
  /\ pending = {}
  /\ Len(droppedResources) + TotalEntries(heap) < MaxSize
  /\ resource # Undefined
  /\ droppedResources' = AppendResource(droppedResources, Spread(resource, heap))
  /\ heap' = Append(heap, <<>>)
  /\ terraformCode' =
       updateTerraformCode(selectedCategory,
                           AppendResource(droppedResources, Spread(resource, heap)),
                           Append(heap, <<>>))
  /\ pending' = Schedule(variant, FALSE, FALSE, TRUE)
  /\ lastOp' = "drop"
  /\ lastLen' = Len(droppedResources)
  /\ lastEdit' = NoEdit
  /\ editOrder' = Append(editOrder, <<>>)
  /\ UNCHANGED <<variant, darkMode, theme, rootDark, selectedCategory>>

\* The history of an edit of field `key` of the resource at `index`.
NoteEdit(index, key, value) ==
  /\ lastOp' = "edit"
  /\ lastLen' = Len(droppedResources)
  /\ lastEdit' = [index |-> index, key |-> key]
  /\ editOrder' =
       IF key \in Range(editOrder[index]) THEN editOrder
       ELSE [editOrder EXCEPT ![index] = Append(@, key)]

\* The inputs rendered for the placed resources, within the model's bound.
CanEdit(index, key) ==
  /\ pending = {}
  /\ index \in 1..Len(droppedResources)
  /\ key \in Range(droppedResources[index].fields)
  /\ \/ HasKey(heap[droppedResources[index].values], key)
     \/ Len(droppedResources) + TotalEntries(heap) < MaxSize

\* Terraform.tsx: onChange of a field input.
updateResourceValue(index, key, value) ==
  /\ variant = "effects"
  /\ CanEdit(index, key)
  /\ heap' = WriteValue(heap, droppedResources[index].values, key, value)
  /\ droppedResources' = droppedResources
  /\ pending' = Schedule(variant, FALSE, FALSE, TRUE)
  /\ NoteEdit(index, key, value)
  /\ UNCHANGED <<variant, darkMode, theme, rootDark, selectedCategory,
                 terraformCode>>

\* part_000: the same handler, which also renders the updated list itself.
updateResourceValueDirect(index, key, value) ==
  /\ variant = "direct"
  /\ CanEdit(index, key)
  /\ heap' = WriteValue(heap, droppedResources[index].values, key, value)
  /\ droppedResources' = droppedResources
  /\ terraformCode' =
       updateTerraformCode(selectedCategory, droppedResources,
                           WriteValue(heap, droppedResources[index].values, key, value))
  /\ pending' = Schedule(variant, FALSE, FALSE, TRUE)
  /\ NoteEdit(index, key, value)
  /\ UNCHANGED <<variant, darkMode, theme, rootDark, selectedCategory>>

\* Both variants: onChange of the category <select>, which the browser fires
\* for another option than the selected one.
selectOnChange(category) ==
  /\ pending = {}
  /\ category # selectedCategory
  /\ selectedCategory' = category
  /\ pending' = Schedule(variant, FALSE, TRUE, FALSE)
  /\ lastOp' = "category"
  /\ lastLen' = Len(droppedResources)
  /\ lastEdit' = NoEdit
  /\ UNCHANGED <<variant, darkMode, theme, rootDark, droppedResources, heap,
                 terraformCode, editOrder>>

\* Both variants: onClick of the theme button.
toggleDarkMode ==
  /\ pending = {}
  /\ darkMode' = ~darkMode
  /\ pending' = Schedule(variant, TRUE, FALSE, FALSE)
  /\ lastOp' = "theme"
  /\ lastLen' = Len(droppedResources)
  /\ lastEdit' = NoEdit
  /\ UNCHANGED <<variant, theme, rootDark, selectedCategory, droppedResources,
                 heap, terraformCode, editOrder>>

\* Both variants: onChange of the code editor after a direct text edit.
editorOnChange(code) ==
  /\ pending = {}
  /\ terraformCode' = OrEmpty(code)
  /\ lastOp' = "editor"
  /\ lastLen' = Len(droppedResources)
  /\ lastEdit' = NoEdit
  /\ UNCHANGED <<variant, darkMode, theme, rootDark, selectedCategory,
                 droppedResources, heap, pending, editOrder>>

\* The category effect: setDroppedResources([]).
ClearEffect(list) == <<>>

\* React runs the pending effects of the committed render in declaration
\* order; each reads the state of that render and the state updates they
\* queue are applied together in the next render.
FlushEffects ==
  /\ pending # {}
  /\ IF "theme" \in pending
       THEN /\ rootDark' = darkMode
            /\ theme' = IF darkMode THEN "dark" ELSE "light"
       ELSE UNCHANGED <<rootDark, theme>>
  /\ IF "clear" \in pending
       THEN /\ droppedResources' = ClearEffect(droppedResources)
            /\ heap' = IF ClearEffect(droppedResources) = <<>> THEN <<>> ELSE heap
            /\ editOrder' = IF ClearEffect(droppedResources) = <<>> THEN <<>> ELSE editOrder
       ELSE UNCHANGED <<droppedResources, heap, editOrder>>
  /\ IF "generate" \in pending
       THEN terraformCode' =
              generateTerraformCode(selectedCategory, droppedResources, heap)
       ELSE UNCHANGED terraformCode
  /\ pending' = Schedule(variant, FALSE, FALSE, "clear" \in pending)
  /\ UNCHANGED <<variant, darkMode, selectedCategory, lastOp, lastLen, lastEdit>>

Next ==
  \/ \E id \in DragIds : handleDragEnd(id)
  \/ \E id \in DragIds : handleDragEndDirect(id)
  \/ \E i \in 1..MaxSize, f \in AllFields, v \in Values :
       updateResourceValue(i, f, v)
  \/ \E i \in 1..MaxSize, f \in AllFields, v \in Values :
       updateResourceValueDirect(i, f, v)
  \/ \E c \in Categories : selectOnChange(c)
  \/ toggleDarkMode
  \/ \E code \in EditorInputs : editorOnChange(code)
  \/ FlushEffects

Spec == Init /\ [][Next]_vars

\* ------------------------------------------------------ reading a document
\* The update cycle has settled: no effect of the committed render is left.
Settled == pending = {}

\* The header line the document grammar gives a resource of identifier id.
HeaderText(id) == "resource \"" \o id \o "\" \"" \o id \o "_resource\" {"

HeaderTexts == {HeaderText(id) : id \in AllIds}

\* The identifier a header line names.
HeaderId == [line \in HeaderTexts |-> CHOOSE id \in AllIds : line = HeaderText(id)]

IsHeader(line) == line \in HeaderTexts

\* The line the document grammar gives the entry key = value.
FieldText(key, value) == "  " \o key \o " = \"" \o value \o "\""

FieldTexts == {FieldText(f, v) : f \in AllFields, v \in Values}

\* The field a field line sets.
FieldKey ==
  [line \in FieldTexts |->
     CHOOSE f \in AllFields : \E v \in Values : line = FieldText(f, v)]

IsFieldLine(line) == line \in FieldTexts

\* Where the resource blocks of a text start, in text order.
HeaderPositions(doc) ==
  SelectSeq([i \in 1..Len(doc) |-> i], LAMBDA i : IsHeader(doc[i]))

ResourceBlockCount(doc) == Len(HeaderPositions(doc))

\* The identifiers heading the resource blocks of a text, in text order.
HeaderIds(doc) ==
  LET pos == HeaderPositions(doc)
  IN  [n \in 1..Len(pos) |-> HeaderId[doc[pos[n]]]]

\* The n-th resource block of a text: from its header to the next header.
BlockOf(doc, n) ==
  LET pos == HeaderPositions(doc)
  IN  SubSeq(doc, pos[n], IF n < Len(pos) THEN pos[n + 1] - 1 ELSE Len(doc))

\* The field names of the field lines of a block, in line order.
FieldKeysOf(block) ==
  LET lines == SelectSeq(block, IsFieldLine)
  IN  [j \in 1..Len(lines) |-> FieldKey[lines[j]]]

\* The fixed preamble keyed by the lower-case category name `lower`.
PreambleText(lower) ==
  << "terraform {",
     "  required_providers {",
     "    " \o lower \o " = {",
     "      source  = \"hashicorp/" \o lower \o "\"",
     "      version = \"~> 4.16\"",
     "    }",
     "  }",
     "  required_version = \">= 1.2.0\"",
     "}",
     "" >>

ProviderText(lower) == << "provider \"" \o lower \o "\" {}", "" >>

LowerCaseName(category) ==
  CASE category = "AWS" -> "aws"
    [] category = "OpenStack" -> "openstack"
    [] category = "Docker" -> "docker"

\* The value a values object holds for a key, or Undefined.
Lookup(obj, key) ==
  IF HasKey(obj, key) THEN String(obj[KeyIndex(obj, key)].value) ELSE Undefined

ValuesOf(i) == heap[droppedResources[i].values]

\* The last operation was a drop or a field edit and its update cycle is over.
AfterDropOrEdit == Settled /\ lastOp \in {"drop", "edit"}

\* ------------------------------------------------------------------ claims

\* C1: once the update cycle of a category change has settled, the placed
\* resources that were on the canvas are gone: the list is empty and the
\* displayed document holds no resource block.
C1_CategoryChangeClears ==
  (Settled /\ lastOp = "category" /\ lastLen > 0)
    => /\ droppedResources = <<>>
       /\ ResourceBlockCount(terraformCode) = 0

\* C1 as Terraform.tsx alone keeps it.
C1_InTerraformTsx == variant = "effects" => C1_CategoryChangeClears

\* C2, for Terraform.tsx: in every state, intermediate ones included, every
\* placed resource and every resource block of the displayed document has an
\* identifier of the selected category's catalog.
C2_DocumentAgreesWithCategory ==
  variant = "effects" =>
    /\ \A i \in 1..Len(droppedResources) :
         droppedResources[i].id \in CatalogIds(selectedCategory)
    /\ \A n \in 1..ResourceBlockCount(terraformCode) :
         HeaderIds(terraformCode)[n] \in CatalogIds(selectedCategory)

\* C3: after a drop, a field edit or a category change, once the update
\* cycle has settled, the displayed document is the renderer's output for
\* the current category and placed resources, whatever was displayed before.
C3_RenderedAfterEveryMutation ==
  (Settled /\ lastOp \in {"drop", "edit", "category"})
    => terraformCode =
         Render(variant, selectedCategory, droppedResources, heap)

\* C3 as Terraform.tsx alone keeps it.
C3_InTerraformTsx == variant = "effects" => C3_RenderedAfterEveryMutation

TypedTexts == {OrEmpty(code) : code \in EditorInputs}

C5_OneBlockPerResourceInOrder ==
  AfterDropOrEdit =>
    HeaderIds(terraformCode) =
      [i \in 1..Len(droppedResources) |-> droppedResources[i].id]

\* C5's case: two resources of different definitions, the second one edited.
C5_Witness ==
  /\ variant = "effects"
  /\ AfterDropOrEdit
  /\ lastOp = "edit"
  /\ Len(droppedResources) = 2
  /\ droppedResources[1].id = "aws_s3"
  /\ droppedResources[2].id = "aws_rds"
  /\ ResourceBlockCount(terraformCode) = 2

\* C6: at start-up and after a category change, the cycle settled and the
\* list empty, the displayed document is the preamble keyed by the
\* lower-case category name followed by the provider block, and nothing else.
C6_EmptyListShowsPreambleAndProvider ==
  (Settled /\ lastOp \in {"mount", "category"} /\ droppedResources = <<>>)
    => terraformCode =
         PreambleText(LowerCaseName(selectedCategory))
           \o ProviderText(LowerCaseName(selectedCategory))

\* C6 as Terraform.tsx alone keeps it.
C6_InTerraformTsx == variant = "effects" => C6_EmptyListShowsPreambleAndProvider

\* C7: in every block of the displayed document the field lines follow the
\* order in which the fields of that resource were first edited.
C7_FieldLinesInFirstEditOrder ==
  AfterDropOrEdit =>
    /\ ResourceBlockCount(terraformCode) = Len(editOrder)
    /\ \A i \in 1..Len(editOrder) :
         FieldKeysOf(BlockOf(terraformCode, i)) = editOrder[i]

\* C7's case: region edited first, then bucket_name, then region once more.
C7_Witness ==
  /\ variant = "effects"
  /\ AfterDropOrEdit
  /\ \E i \in 1..Len(editOrder) :
       /\ editOrder[i] = <<"region", "bucket_name">>
       /\ lastEdit = [index |-> i, key |-> "region"]

\* The block the document grammar gives a resource of identifier id with the
\* entries of obj.
BlockText(id, obj) ==
  <<HeaderText(id)>>
    \o [j \in 1..Len(obj) |-> FieldText(obj[j].key, obj[j].value)]
    \o << "}", "" >>

S3Scenario ==
  /\ AfterDropOrEdit
  /\ selectedCategory = "AWS"
  /\ Len(droppedResources) = 1
  /\ droppedResources[1].id = "aws_s3"
  /\ ValuesOf(1) = << [key |-> "bucket_name", value |-> "my-bucket"],
                      [key |-> "region", value |-> "us-east-1"] >>

\* C8: every block of the displayed document is the header of its resource,
\* one line per entry of its mapping with the value verbatim, a closing brace
\* and a blank line; the aws_s3 scenario renders the stated block after the
\* preamble that names aws.
C8_BlockGrammar ==
  /\ AfterDropOrEdit =>
       /\ ResourceBlockCount(terraformCode) = Len(droppedResources)
       /\ \A i \in 1..Len(droppedResources) :
            BlockOf(terraformCode, i) =
              BlockText(droppedResources[i].id, ValuesOf(i))
  /\ S3Scenario =>
       /\ SubSeq(terraformCode, 1, 10) = PreambleText("aws")
       /\ SubSeq(terraformCode, Len(terraformCode) - 4, Len(terraformCode)) =
            << "resource \"aws_s3\" \"aws_s3_resource\" {",
               "  bucket_name = \"my-bucket\"",
               "  region = \"us-east-1\"",
               "}",
               "" >>

\* C8's case: the aws_s3 scenario.
C8_Witness ==
  /\ variant = "effects"
  /\ S3Scenario
  /\ ResourceBlockCount(terraformCode) = 1

\* C9: a drop appends one resource with an empty mapping and leaves the
\* others as they were, a field edit keeps the list, and entries leave the
\* list only all together, in the update cycle of a category change.
C9_Lifecycle ==
  [][ /\ (Settled /\ lastOp' = "drop") =>
           /\ Len(droppedResources') = Len(droppedResources) + 1
           /\ SubSeq(droppedResources', 1, Len(droppedResources)) = droppedResources
           /\ heap'[droppedResources'[Len(droppedResources')].values] = <<>>
           /\ \A i \in 1..Len(droppedResources) :
                heap'[droppedResources'[i].values] = ValuesOf(i)
      /\ (Settled /\ lastOp' = "edit") =>
           [i \in 1..Len(droppedResources') |-> droppedResources'[i].id]
             = [i \in 1..Len(droppedResources) |-> droppedResources[i].id]
      /\ Len(droppedResources') > Len(droppedResources) =>
           Settled /\ lastOp' = "drop"
      /\ Len(droppedResources') < Len(droppedResources) =>
           /\ droppedResources' = <<>>
           /\ lastOp = "category"
    ]_vars

\* C9's case: two resources dropped, then cleared
\* together by the update cycle of a category change.
C9_Witness ==
  /\ variant = "effects"
  /\ Settled
  /\ lastOp = "category"
  /\ lastLen = 2
  /\ droppedResources = <<>>

\* C10: a field edit changes the value of that field of that resource and
\* nothing else of the model: not the category, not the list, no other field
\* of the resource and no mapping of another placed resource.
C10_EditFrame ==
  [][ (Settled /\ lastOp' = "edit") =>
        LET i == lastEdit'.index
            k == lastEdit'.key
        IN  /\ selectedCategory' = selectedCategory
            /\ droppedResources' = droppedResources
            /\ Len(heap') = Len(heap)
            /\ Lookup(heap'[droppedResources[i].values], k) \in
                 {String(v) : v \in Values}
            /\ \A f \in AllFields \ {k} :
                 Lookup(heap'[droppedResources[i].values], f)
                   = Lookup(ValuesOf(i), f)
            /\ \A j \in 1..Len(droppedResources) :
                 j # i => heap'[droppedResources[j].values] = ValuesOf(j)
    ]_vars

\* C10's case: two resources placed from one definition, with mappings that
\* differ after an edit.
C10_Witness ==
  /\ variant = "effects"
  /\ lastOp = "edit"
  /\ Len(droppedResources) = 2
  /\ droppedResources[1].id = droppedResources[2].id
  /\ ValuesOf(1) # ValuesOf(2)

====
